---- MODULE Spec2Model ----
(***************************************************************************)
(* A model of oandapy: the streaming client (Streamer.start and            *)
(* Streamer.disconnect, run by two threads that share the connected flag)  *)
(* and the REST client's API.request.                                      *)
(***************************************************************************)
EXTENDS Integers, Sequences, FiniteSets

\* ------------------------------------------------------------------ bounds

\* start calls made on one Streamer
MaxCalls == 2
\* GETs issued by one start call
MaxGets == 2
\* lines the server sends during one start call, over all its responses
MaxLines == 2
\* disconnect calls made on one Streamer
MaxDisconnects == 2
\* requests made on one API object
MaxRequests == 1

\* ------------------------------------------------------- program constants

\* `if response.status_code != 200`
StatusOK == 200
\* `if response.status_code >= 400`
ErrorThreshold == 400

\* ------------------------------------------------------------ stream input

HeartbeatLine == "{\"heartbeat\":{\"time\":\"t\"}}"
TickLine == "{\"tick\":{\"instrument\":\"EUR_USD\",\"bid\":1.1}}"
MalformedLine == "{\"tick\":"
EmptyLine == ""

\* The lines a response body is made of: a keep-alive, a price, a truncated
\* object and the empty line iter_lines yields for a blank line.
Lines == {EmptyLine, HeartbeatLine, TickLine, MalformedLine}

\* The statuses the streaming endpoint answers with.
StreamStatuses == {200, 404}

\* The bodies a non-200 response can still carry.
RECURSIVE SeqsUpTo(_)
SeqsUpTo(n) ==
    IF n = 0 THEN {<<>>}
    ELSE LET shorter == SeqsUpTo(n - 1)
         IN  shorter \cup {Append(s, l) : s \in {t \in shorter : Len(t) = n - 1}, l \in Lines}

\* json.loads(line.decode("utf-8")): whether it returns, and what.
JsonValid(l) == l \in {HeartbeatLine, TickLine}

JsonLoads(l) ==
    CASE l = HeartbeatLine -> [heartbeat |-> [time |-> "t"]]
      [] l = TickLine -> [tick |-> [instrument |-> "EUR_USD", bid |-> "1.1"]]

\* `ignore_heartbeat and "heartbeat" in data`
SuppressedAlways(ignore, data) == "heartbeat" \in DOMAIN data

Suppressed(ignore, data) == ignore /\ "heartbeat" \in DOMAIN data

\* ------------------------------------------------------------------- state

VARIABLES
    connected,          \* Streamer.connected
    pc,                 \* where the thread running start is
    ignore_heartbeat,   \* start's parameter
    status,             \* response.status_code of the current response
    buffered,           \* response.content has been read (the body is in memory)
    content,            \* what is left of a buffered body
    line,               \* the loop variable of `for line in response.iter_lines(90)`
    exc,                \* the exception start left by
    calls,              \* start calls made so far
    discs,              \* disconnect calls made so far
    gets,               \* GETs this start call has issued
    sent,               \* lines the server has sent during this start call
    responses,          \* history: the responses this start call received
    processed,          \* history: the lines this start call ran the loop body on
    log,                \* history: the callbacks this start call invoked
    observed,           \* history: the value the last `while self.connected` read
    seen,               \* history: the value the last `if not self.connected` read
    discAtEntry,        \* history: disconnect ran between the call and line 359
    discSinceEntry,     \* history: disconnect ran after line 359
    afterDisc,          \* history: loop bodies run while connected was false
    getsAfterDisc,      \* history: GETs issued while connected was false
    prevEnd,            \* history: how the previous start call ended
    apc,                \* where the thread running API.request is
    method,             \* request's method, lower-cased
    request_args,       \* the keyword request passes its params under
    responseBound,      \* whether request's local `response` is bound
    aresp,              \* request's response: status_code and body
    transportFailed,    \* history: func raised requests.RequestException
    result,             \* how request ended
    requests            \* requests made so far

streamVars == <<connected, pc, ignore_heartbeat, status, buffered, content, line, exc,
                calls, discs, gets, sent, responses, processed, log, observed, seen,
                discAtEntry, discSinceEntry, afterDisc, getsAfterDisc, prevEnd>>

apiVars == <<apc, method, request_args, responseBound, aresp, transportFailed, result,
             requests>>

vars == <<streamVars, apiVars>>

NoResult == [kind |-> "none"]

\* Streamer.__init__ and API.__init__
Init ==
    /\ connected = FALSE
    /\ pc = "idle"
    /\ ignore_heartbeat = TRUE
    /\ status = 0
    /\ buffered = FALSE
    /\ content = <<>>
    /\ line = EmptyLine
    /\ exc = "none"
    /\ calls = 0
    /\ discs = 0
    /\ gets = 0
    /\ sent = 0
    /\ responses = <<>>
    /\ processed = <<>>
    /\ log = <<>>
    /\ observed = FALSE
    /\ seen = FALSE
    /\ discAtEntry = FALSE
    /\ discSinceEntry = FALSE
    /\ afterDisc = 0
    /\ getsAfterDisc = 0
    /\ prevEnd = "none"
    /\ apc = "idle"
    /\ method = "get"
    /\ request_args = "params"
    /\ responseBound = FALSE
    /\ aresp = [status_code |-> 0, body |-> [json |-> FALSE]]
    /\ transportFailed = FALSE
    /\ result = NoResult
    /\ requests = 0

\* ------------------------------------------------------ Streamer.start

\* The caller invokes start(ignore_heartbeat=..., **params); its first
\* statement has not run yet.
StartCall ==
    /\ pc \in {"idle", "returned", "raised"}
    /\ calls < MaxCalls
    /\ calls' = calls + 1
    /\ \E ih \in BOOLEAN : ignore_heartbeat' = ih
    /\ pc' = "entry"
    /\ prevEnd' = IF pc = "idle" THEN "none" ELSE pc
    /\ exc' = "none"
    /\ gets' = 0
    /\ sent' = 0
    /\ responses' = <<>>
    /\ processed' = <<>>
    /\ log' = <<>>
    /\ discAtEntry' = FALSE
    /\ discSinceEntry' = FALSE
    /\ afterDisc' = 0
    /\ getsAfterDisc' = 0
    /\ status' = 0
    /\ buffered' = FALSE
    /\ content' = <<>>
    /\ line' = EmptyLine
    /\ observed' = FALSE
    /\ seen' = FALSE
    /\ UNCHANGED <<connected, discs, apiVars>>

\* A start whose first statement is missing.
StartEntryKeepsFlag ==
    /\ pc = "entry"
    /\ pc' = "while"
    /\ UNCHANGED <<connected, ignore_heartbeat, status, buffered, content, line, exc,
                   calls, discs, gets, sent, responses, processed, log, observed, seen,
                   discAtEntry, discSinceEntry, afterDisc, getsAfterDisc, prevEnd,
                   apiVars>>

\* self.connected = True
StartEntry ==
    /\ pc = "entry"
    /\ connected' = TRUE
    /\ pc' = "while"
    /\ UNCHANGED <<ignore_heartbeat, status, buffered, content, line, exc,
                   calls, discs, gets, sent, responses, processed, log, observed, seen,
                   discAtEntry, discSinceEntry, afterDisc, getsAfterDisc, prevEnd,
                   apiVars>>

\* `while self.connected:` and, when it holds, the call of self.client.get;
\* when it does not, start returns.
WhileCheck ==
    /\ pc = "while"
    /\ observed' = connected
    /\ IF connected
       THEN /\ gets < MaxGets
            /\ gets' = gets + 1
            /\ getsAfterDisc' = getsAfterDisc + (IF discSinceEntry THEN 1 ELSE 0)
            /\ pc' = "get"
       ELSE /\ pc' = "returned"
            /\ UNCHANGED <<gets, getsAfterDisc>>
    /\ UNCHANGED <<connected, ignore_heartbeat, status, buffered, content, line, exc,
                   calls, discs, sent, responses, processed, log, seen,
                   discAtEntry, discSinceEntry, afterDisc, prevEnd,
                   apiVars>>

\* self.client.get returns a response: its headers have arrived, its body
\* has not been read (the session streams).
GetResponse ==
    /\ pc = "get"
    /\ \E s \in StreamStatuses :
          /\ status' = s
          /\ responses' = Append(responses, s)
    /\ buffered' = FALSE
    /\ content' = <<>>
    /\ pc' = "status"
    /\ UNCHANGED <<connected, ignore_heartbeat, line, exc,
                   calls, discs, gets, sent, processed, log, observed, seen,
                   discAtEntry, discSinceEntry, afterDisc, getsAfterDisc, prevEnd,
                   apiVars>>

\* self.client.get raises (connection refused, timeout): nothing in start
\* catches it.
GetFails ==
    /\ pc = "get"
    /\ pc' = "raised"
    /\ exc' = "RequestException"
    /\ UNCHANGED <<connected, ignore_heartbeat, status, buffered, content, line,
                   calls, discs, gets, sent, responses, processed, log, observed, seen,
                   discAtEntry, discSinceEntry, afterDisc, getsAfterDisc, prevEnd,
                   apiVars>>

\* A status check that gives up the connection when the answer is not 200.
StatusCheckDisconnects ==
    /\ pc = "status"
    /\ IF status # StatusOK
       THEN \E body \in SeqsUpTo(MaxLines - sent) :
               /\ sent' = sent + Len(body)
               /\ buffered' = TRUE
               /\ content' = body
               /\ connected' = FALSE
               /\ log' = Append(log, [cb |-> "on_error", get |-> gets, content |-> body])
       ELSE UNCHANGED <<sent, buffered, content, log, connected>>
    /\ pc' = "iter"
    /\ UNCHANGED <<ignore_heartbeat, status, line, exc,
                   calls, discs, gets, responses, processed, observed, seen,
                   discAtEntry, discSinceEntry, afterDisc, getsAfterDisc, prevEnd,
                   apiVars>>

\* A status check that goes back to the outer loop after on_error.
StatusCheckSkipsBody ==
    /\ pc = "status"
    /\ IF status # StatusOK
       THEN /\ \E body \in SeqsUpTo(MaxLines - sent) :
                  /\ sent' = sent + Len(body)
                  /\ buffered' = TRUE
                  /\ content' = body
                  /\ log' = Append(log, [cb |-> "on_error", get |-> gets, content |-> body])
            /\ pc' = "while"
       ELSE /\ UNCHANGED <<sent, buffered, content, log>>
            /\ pc' = "iter"
    /\ UNCHANGED <<connected, ignore_heartbeat, status, line, exc,
                   calls, discs, gets, responses, processed, observed, seen,
                   discAtEntry, discSinceEntry, afterDisc, getsAfterDisc, prevEnd,
                   apiVars>>

\* `if response.status_code != 200: self.on_error(response.content)`.
\* Reading response.content reads the body to its end and keeps it, so that
\* iter_lines below goes over the same bytes.
StatusCheck ==
    /\ pc = "status"
    /\ IF status # StatusOK
       THEN \E body \in SeqsUpTo(MaxLines - sent) :
               /\ sent' = sent + Len(body)
               /\ buffered' = TRUE
               /\ content' = body
               /\ log' = Append(log, [cb |-> "on_error", get |-> gets, content |-> body])
       ELSE UNCHANGED <<sent, buffered, content, log>>
    /\ pc' = "iter"
    /\ UNCHANGED <<connected, ignore_heartbeat, status, line, exc,
                   calls, discs, gets, responses, processed, observed, seen,
                   discAtEntry, discSinceEntry, afterDisc, getsAfterDisc, prevEnd,
                   apiVars>>

\* The body has ended: the for loop is over, back to `while self.connected`.
EndOfBody ==
    /\ pc' = "while"
    /\ UNCHANGED <<line, content, sent>>

\* A start that returns when the body ends.
IterNextReturnsAtEOF ==
    /\ pc = "iter"
    /\ IF buffered
       THEN IF content = <<>>
            THEN /\ pc' = "returned"
                 /\ UNCHANGED <<line, content, sent>>
            ELSE /\ line' = Head(content)
                 /\ content' = Tail(content)
                 /\ pc' = "check"
                 /\ UNCHANGED <<sent>>
       ELSE \/ /\ sent < MaxLines
               /\ \E l \in Lines : line' = l
               /\ sent' = sent + 1
               /\ pc' = "check"
               /\ UNCHANGED <<content>>
            \/ /\ pc' = "returned"
               /\ UNCHANGED <<line, content, sent>>
    /\ UNCHANGED <<connected, ignore_heartbeat, status, buffered, exc,
                   calls, discs, gets, responses, processed, log, observed, seen,
                   discAtEntry, discSinceEntry, afterDisc, getsAfterDisc, prevEnd,
                   apiVars>>

\* `for line in response.iter_lines(90)`: the next line of the body, read
\* from memory when the body is buffered and from the network (blocking)
\* when it is not, or the end of the body.
IterNext ==
    /\ pc = "iter"
    /\ IF buffered
       THEN IF content = <<>>
            THEN EndOfBody
            ELSE /\ line' = Head(content)
                 /\ content' = Tail(content)
                 /\ pc' = "check"
                 /\ UNCHANGED <<sent>>
       ELSE \/ /\ sent < MaxLines
               /\ \E l \in Lines : line' = l
               /\ sent' = sent + 1
               /\ pc' = "check"
               /\ UNCHANGED <<content>>
            \/ EndOfBody
    /\ UNCHANGED <<connected, ignore_heartbeat, status, buffered, exc,
                   calls, discs, gets, responses, processed, log, observed, seen,
                   discAtEntry, discSinceEntry, afterDisc, getsAfterDisc, prevEnd,
                   apiVars>>

\* The network read under iter_lines raises (the connection breaks):
\* nothing in start catches it.
IterFails ==
    /\ pc = "iter"
    /\ ~buffered
    /\ pc' = "raised"
    /\ exc' = "RequestException"
    /\ UNCHANGED <<connected, ignore_heartbeat, status, buffered, content, line,
                   calls, discs, gets, sent, responses, processed, log, observed, seen,
                   discAtEntry, discSinceEntry, afterDisc, getsAfterDisc, prevEnd,
                   apiVars>>

\* A loop without the check of the flag before each line.
FlagCheckNeverBreaks ==
    /\ pc = "check"
    /\ seen' = connected
    /\ pc' = "body"
    /\ UNCHANGED <<connected, ignore_heartbeat, status, buffered, content, line, exc,
                   calls, discs, gets, sent, responses, processed, log, observed,
                   discAtEntry, discSinceEntry, afterDisc, getsAfterDisc, prevEnd,
                   apiVars>>

\* `if not self.connected: break`
FlagCheck ==
    /\ pc = "check"
    /\ seen' = connected
    /\ pc' = IF connected THEN "body" ELSE "while"
    /\ UNCHANGED <<connected, ignore_heartbeat, status, buffered, content, line, exc,
                   calls, discs, gets, sent, responses, processed, log, observed,
                   discAtEntry, discSinceEntry, afterDisc, getsAfterDisc, prevEnd,
                   apiVars>>

\* `if line:` (an empty bytes object is false)
Truthy(l) == l # EmptyLine

\* A loop body that goes on to the next line when a line does not parse.
ProcessLineSkipsMalformed ==
    /\ pc = "body"
    /\ processed' = Append(processed,
                           [line |-> line, get |-> gets, status |-> status, seen |-> seen])
    /\ afterDisc' = afterDisc + (IF connected THEN 0 ELSE 1)
    /\ IF Truthy(line) /\ JsonValid(line) /\ ~Suppressed(ignore_heartbeat, JsonLoads(line))
       THEN log' = Append(log, [cb |-> "on_success", get |-> gets, data |-> JsonLoads(line)])
       ELSE log' = log
    /\ pc' = "iter"
    /\ UNCHANGED <<connected, ignore_heartbeat, status, buffered, content, line, exc,
                   calls, discs, gets, sent, responses, observed, seen,
                   discAtEntry, discSinceEntry, getsAfterDisc, prevEnd,
                   apiVars>>

\* The body of the for loop after the check:
\*   if line:
\*       data = json.loads(line.decode("utf-8"))
\*       if not (ignore_heartbeat and "heartbeat" in data):
\*           self.on_success(data)
ProcessLine ==
    /\ pc = "body"
    /\ processed' = Append(processed,
                           [line |-> line, get |-> gets, status |-> status, seen |-> seen])
    /\ afterDisc' = afterDisc + (IF connected THEN 0 ELSE 1)
    /\ IF ~Truthy(line)
       THEN /\ pc' = "iter"
            /\ UNCHANGED <<log, exc>>
       ELSE IF ~JsonValid(line)
            THEN /\ pc' = "raised"
                 /\ exc' = "ValueError"
                 /\ log' = log
            ELSE /\ log' = IF Suppressed(ignore_heartbeat, JsonLoads(line))
                           THEN log
                           ELSE Append(log, [cb |-> "on_success", get |-> gets,
                                             data |-> JsonLoads(line)])
                 /\ pc' = "iter"
                 /\ exc' = exc
    /\ UNCHANGED <<connected, ignore_heartbeat, status, buffered, content, line,
                   calls, discs, gets, sent, responses, observed, seen,
                   discAtEntry, discSinceEntry, getsAfterDisc, prevEnd,
                   apiVars>>

\* ------------------------------------------------- Streamer.disconnect

\* The statements of start's loop, lines 364 to 377.
InLoop == pc \in {"while", "get", "status", "iter", "check", "body"}

\* self.connected = False, by another thread.
Disconnect ==
    /\ discs < MaxDisconnects
    /\ discs' = discs + 1
    /\ connected' = FALSE
    /\ discAtEntry' = (discAtEntry \/ pc = "entry")
    /\ discSinceEntry' = (discSinceEntry \/ InLoop)
    /\ UNCHANGED <<pc, ignore_heartbeat, status, buffered, content, line, exc,
                   calls, gets, sent, responses, processed, log, observed, seen,
                   afterDisc, getsAfterDisc, prevEnd, apiVars>>

StreamNext ==
    \/ StartCall
    \/ StartEntry
    \/ WhileCheck
    \/ GetResponse
    \/ GetFails
    \/ StatusCheck
    \/ IterNext
    \/ IterFails
    \/ FlagCheck
    \/ ProcessLine
    \/ Disconnect

Spec == Init /\ [][StreamNext]_vars

\* ------------------------------------------------------------ API.request

\* The verbs of RequestsMixin: _get, _post, _patch, _delete.
Methods == {"GET", "POST", "PATCH", "DELETE"}

\* method.lower()
Lower(m) ==
    CASE m = "GET" -> "get"
      [] m = "POST" -> "post"
      [] m = "PATCH" -> "patch"
      [] m = "DELETE" -> "delete"

\* The statuses the REST endpoints answer with.
ApiStatuses == {200, 201, 399, 400, 404, 500}

\* The bodies they answer with: two error payloads, a payload that is no
\* error payload, and a body that is not JSON.
ApiBodies ==
    { [json |-> TRUE, obj |-> [code |-> 36, message |-> "Bad Request"]],
      [json |-> TRUE, obj |-> [code |-> 1, message |-> "Invalid or malformed argument"]],
      [json |-> TRUE, obj |-> [prices |-> "EUR_USD"]],
      [json |-> FALSE] }

DigitChars == <<"0", "1", "2", "3", "4", "5", "6", "7", "8", "9">>

\* "%s" % n for a non-negative int: its decimal digits.
RECURSIVE Digits(_)
Digits(n) ==
    IF n < 10 THEN <<DigitChars[n + 1]>>
    ELSE Digits(n \div 10) \o <<DigitChars[(n % 10) + 1]>>

\* "OANDA API returned error code %s (%s)" % (code, message), as the
\* sequence of its pieces.
ErrorMessage(error_response) ==
    <<"OANDA API returned error code ">> \o Digits(error_response.code)
        \o <<" (", error_response.message, ")">>

\* OandaError(error_response): the subscripts raise KeyError when the
\* payload lacks a field.
OandaError(error_response) ==
    IF {"code", "message"} \subseteq DOMAIN error_response
    THEN [kind |-> "OandaError", msg |-> ErrorMessage(error_response)]
    ELSE [kind |-> "KeyError"]

\* An error test that lets status 400 through.
IsErrorStatusAbove(s) == s > ErrorThreshold

\* `response.status_code >= 400`
IsErrorStatus(s) == s >= ErrorThreshold

\* Lines 307 to 313, from `content = response.json()` on: how request ends.
Outcome(bound, response) ==
    IF ~bound THEN [kind |-> "UnboundLocalError"]
    ELSE IF ~response.body.json THEN [kind |-> "ValueError"]
    ELSE IF IsErrorStatus(response.status_code) THEN OandaError(response.body.obj)
    ELSE [kind |-> "return", value |-> response.body.obj]

\* request(endpoint, method, params) up to the call of func(url, **request_args).
RequestCall ==
    /\ apc \in {"idle", "done"}
    /\ requests < MaxRequests
    /\ requests' = requests + 1
    /\ \E m \in Methods :
          /\ method' = Lower(m)
          /\ request_args' = IF Lower(m) = "get" THEN "params" ELSE "data"
    /\ responseBound' = FALSE
    /\ transportFailed' = FALSE
    /\ result' = NoResult
    /\ apc' = "sent"
    /\ UNCHANGED <<aresp, streamVars>>

\* func returns a response.
FuncReturns ==
    /\ apc = "sent"
    /\ \E s \in ApiStatuses, b \in ApiBodies : aresp' = [status_code |-> s, body |-> b]
    /\ responseBound' = TRUE
    /\ apc' = "parse"
    /\ UNCHANGED <<method, request_args, transportFailed, result, requests, streamVars>>

\* func raises requests.RequestException: the handler prints it and falls
\* through to line 307 with `response` unbound.
FuncRaises ==
    /\ apc = "sent"
    /\ transportFailed' = TRUE
    /\ apc' = "parse"
    /\ UNCHANGED <<method, request_args, responseBound, aresp, result, requests,
                   streamVars>>

\* content = response.json(); raise OandaError(content) or return content.
Finish ==
    /\ apc = "parse"
    /\ result' = Outcome(responseBound, aresp)
    /\ apc' = "done"
    /\ UNCHANGED <<method, request_args, responseBound, aresp, transportFailed, requests,
                   streamVars>>

ApiNext ==
    \/ RequestCall
    \/ FuncReturns
    \/ FuncRaises
    \/ Finish

ApiSpec == Init /\ [][ApiNext]_vars

\* ----------------------------------------------------------------- claims

OnSuccess(e) == e.cb = "on_success"
OnError(e) == e.cb = "on_error"

\* The callbacks of this start call that are on_success, and those that are on_error.
Successes == SelectSeq(log, OnSuccess)
Errors == SelectSeq(log, OnError)

\* What the specification says of a line: it is dispatched when it is a
\* price, or a heartbeat with heartbeats not ignored.
Dispatched(e) == e.line = TickLine \/ (e.line = HeartbeatLine /\ ~ignore_heartbeat)

\* The event a well-formed line stands for.
EventOf(l) ==
    IF l = TickLine THEN [tick |-> [instrument |-> "EUR_USD", bid |-> "1.1"]]
    ELSE [heartbeat |-> [time |-> "t"]]

FromOk(e) == responses[e.get] = 200
FromOkSuccess(e) == OnSuccess(e) /\ FromOk(e)
FromOkDispatched(e) == FromOk(e) /\ Dispatched(e)

\* s is a prefix of t
IsPrefix(s, t) == Len(s) <= Len(t) /\ SubSeq(t, 1, Len(s)) = s

\* sub occurs in s
Contains(s, sub) ==
    \E i \in 0..(Len(s) - Len(sub)) : SubSeq(s, i + 1, i + Len(sub)) = sub

\* C1: within one start call, the on_success invocations for the lines of
\* 200 responses are, in arrival order, exactly one per line that is a price
\* or, with ignore_heartbeat false, a heartbeat, each with the line's parsed
\* object; empty lines and, with ignore_heartbeat true, heartbeats cause none.
C1_HeartbeatFilter ==
    LET got == SelectSeq(log, FromOkSuccess)
        want == SelectSeq(processed, FromOkDispatched)
    IN  /\ Len(got) = Len(want)
        /\ \A i \in 1..Len(got) :
              /\ got[i].data = EventOf(want[i].line)
              /\ got[i].get = want[i].get

\* The specification's example: a heartbeat then a price, heartbeats ignored,
\* one on_success with the price.
C1_Witness ==
    /\ ignore_heartbeat
    /\ Len(processed) = 2
    /\ processed[1].line = HeartbeatLine /\ processed[1].status = 200
    /\ processed[2].line = TickLine /\ processed[2].status = 200
    /\ Len(log) = 1
    /\ log[1].cb = "on_success"
    /\ "tick" \in DOMAIN log[1].data

C3_ReturnsOnlyDisconnected == pc = "returned" => (~connected /\ ~observed)

\* start returned after a second GET: the first body ended with the flag
\* still true.
C3_Witness == pc = "returned" /\ gets = 2 /\ Len(responses) = 2

\* The GETs of this start call whose status check has run and found a
\* status other than 200.
ErrorResponses ==
    {g \in 1..Len(responses) : responses[g] # 200 /\ ~(pc = "status" /\ g = gets)}

\* C4: on_error is invoked exactly once for each non-200 response, in order;
\* that leaves connected true, and start does not return unless disconnect
\* is called.
C4_ErrorKeepsLooping ==
    /\ Len(Errors) = Cardinality(ErrorResponses)
    /\ \A i \in 1..Len(Errors) : Errors[i].get \in ErrorResponses
    /\ \A i, j \in 1..Len(Errors) : i < j => Errors[i].get < Errors[j].get
    /\ (InLoop /\ ~discSinceEntry /\ Len(Errors) > 0) => connected
    /\ (pc = "returned" /\ Len(Errors) > 0) => discSinceEntry

\* Two non-200 responses in a row, no disconnect: two GET / on_error pairs
\* and start still in its loop.
C4_Witness ==
    /\ Len(Errors) = 2
    /\ Errors[1].get = 1 /\ Errors[2].get = 2
    /\ ~discSinceEntry
    /\ connected
    /\ InLoop

\* C5: in a start call that follows an earlier one, once its first statement
\* has run connected is true until a disconnect, a response is handled only
\* after a GET of this call, and the events dispatched are those of the
\* lines of this call.
C5_ReEnterable ==
    calls >= 2 =>
        /\ (InLoop /\ ~discSinceEntry) => connected
        /\ pc \in {"status", "iter", "check", "body"} => (gets >= 1 /\ Len(responses) = gets)
        /\ pc = "returned" => discSinceEntry
        /\ Len(Successes) = Len(SelectSeq(processed, Dispatched))
        /\ \A i \in 1..Len(log) : log[i].get \in 1..gets

\* start, disconnect, start returned, start again: the new call dispatches
\* an event of its own response.
C5_Witness ==
    /\ calls = 2
    /\ prevEnd = "returned"
    /\ Len(Successes) >= 1
    /\ connected

\* C6: a line that is not JSON is the last line start processes: start has
\* raised ValueError, the line caused no on_success, and nothing more is
\* dispatched or requested by that call.
C6_MalformedIsFatal ==
    /\ \A i \in 1..Len(processed) :
          processed[i].line = MalformedLine =>
              /\ i = Len(processed)
              /\ pc = "raised"
              /\ exc = "ValueError"
              /\ gets = processed[i].get
    /\ Len(Successes) = Len(SelectSeq(processed, Dispatched))

\* A price was dispatched, then a malformed line ended the call.
C6_Witness ==
    /\ pc = "raised"
    /\ exc = "ValueError"
    /\ Len(processed) = 2
    /\ processed[2].line = MalformedLine
    /\ Len(Successes) = 1

LinesOf(g) ==
    LET ofG(e) == e.get = g
        es == SelectSeq(processed, ofG)
    IN  [i \in 1..Len(es) |-> es[i].line]

\* C9: the lines of a non-200 response are iterated after on_error: the
\* lines processed for it are a prefix of the body on_error was given, the
\* whole body when start has gone on to the next GET, and every on_success
\* for one of them follows that on_error.
C9_ErrorBodyIterated ==
    \A i \in 1..Len(log) :
        OnError(log[i]) =>
            LET g == log[i].get
                ofG(e) == e.get = g
                ofGDispatched(e) == e.get = g /\ Dispatched(e)
                ofGSuccess(e) == e.get = g /\ OnSuccess(e)
            IN  /\ IsPrefix(LinesOf(g), log[i].content)
                /\ gets > g => LinesOf(g) = log[i].content
                /\ Len(SelectSeq(log, ofGSuccess)) = Len(SelectSeq(processed, ofGDispatched))
                /\ \A j \in 1..Len(log) : ofGSuccess(log[j]) => j > i

\* One non-200 response caused an on_error and then an on_success.
C9_Witness ==
    /\ Len(log) >= 2
    /\ OnError(log[1])
    /\ OnSuccess(log[2])
    /\ log[2].get = log[1].get
    /\ responses[1] = 404

\* C10: connected becomes true only by start's first statement and false
\* only by disconnect; the first statement sets it true whatever disconnect
\* did before, and start then returns only after a later disconnect.
C10_FlagWriters ==
    [][ /\ (connected' /\ ~connected) => (pc = "entry" /\ pc' = "while")
        /\ (~connected' /\ connected) => (discs' = discs + 1 /\ pc' = pc)
        /\ (pc = "entry" /\ pc' = "while") => connected'
        /\ (pc' = "returned" /\ pc # "returned") => discSinceEntry ]_vars

\* disconnect ran before start's first statement; start is connected and
\* has dispatched an event.
C10_Witness ==
    /\ discAtEntry
    /\ ~discSinceEntry
    /\ connected
    /\ Len(Successes) >= 1

\* C7: for every verb, a status below 400 returns the parsed body unchanged;
\* a status of 400 or more returns nothing and, the body being an error
\* payload, raises OandaError with the payload's code and message in its
\* message.
C7_StatusThreshold ==
    (apc = "done" /\ responseBound /\ aresp.body.json) =>
        IF aresp.status_code < 400
        THEN result = [kind |-> "return", value |-> aresp.body.obj]
        ELSE /\ result.kind # "return"
             /\ {"code", "message"} \subseteq DOMAIN aresp.body.obj =>
                   /\ result.kind = "OandaError"
                   /\ Contains(result.msg, Digits(aresp.body.obj.code))
                   /\ Contains(result.msg, <<aresp.body.obj.message>>)

\* The specification's example: 404 with code 36 and message Bad Request.
C7_Witness ==
    /\ apc = "done"
    /\ responseBound
    /\ aresp.status_code = 404
    /\ result.kind = "OandaError"
    /\ Contains(result.msg, <<"3", "6">>)
    /\ Contains(result.msg, <<"Bad Request">>)

\* C8: when the transport fails, request does not go on to line 307 with
\* `response` unbound, and it ends with the transport's exception.
C8_TransportFailureExplicit ==
    /\ apc = "parse" => responseBound
    /\ (apc = "done" /\ transportFailed) => result.kind = "RequestException"
====
